---- MODULE Spec2Model ----
(***************************************************************************)
(* The call-coordination core of new-pm-nexa/store.tsx (AppProvider): the  *)
(* signaling handler, the peer-connection registry, the local media        *)
(* controller and the call session operations, one AppProvider per user.   *)
(*                                                                         *)
(* Every client is one record.  The event loop of a client is single       *)
(* threaded, so each action is one run-to-completion segment of a handler: *)
(* from its invocation (or its resumption) to its next modelled await.     *)
(* The modelled awaits are the media captures (getUserMedia,               *)
(* getDisplayMedia), the store inserts of the HANGUP handler and the       *)
(* replaceTrack of the camera that stopScreenSharing restores; the other   *)
(* awaits on RTCPeerConnection methods complete within the segment.        *)
(*                                                                         *)
(* React state is the value after every setState issued so far; `rendered` *)
(* is the state of the last render: what the closures of the UI callbacks  *)
(* see, and what the effect of store.tsx:216-224 copied into isInCallRef,  *)
(* activeCallDataRef and incomingCallRef.                                  *)
(***************************************************************************)
EXTENDS Integers, Sequences, FiniteSets, Bags, TLC

VARIABLES client, inbox, messages, notifications, opsLeft, abandonedCalls

vars == <<client, inbox, messages, notifications, opsLeft, abandonedCalls>>

Users == {"u1", "u2", "u3"}

\* Bounds of the model.
MaxOps == 3
MaxInbox == 2

\* null | value
None == <<>>
Some(x) == <<x>>
The(o) == o[1]

Includes(seq, x) == \E i \in 1..Len(seq) : seq[i] = x
Filter(seq, x) == SelectSeq(seq, LAMBDA y : y # x)
Min(S) == CHOOSE x \in S : \A y \in S : x <= y

(***************************************************************************)
(* State of one AppProvider                                                *)
(***************************************************************************)
Snapshot(s) ==
  [isInCall |-> s.isInCall, activeCallData |-> s.activeCallData,
   incomingCall |-> s.incomingCall, localStream |-> s.localStream,
   localAudioStream |-> s.localAudioStream,
   localVideoStream |-> s.localVideoStream,
   isScreenSharing |-> s.isScreenSharing, isMicOn |-> s.isMicOn,
   isCameraOn |-> s.isCameraOn]

InitialState ==
  [isInCall |-> FALSE, activeCallData |-> None, incomingCall |-> None,
   localStream |-> None, localAudioStream |-> None, localVideoStream |-> None,
   isScreenSharing |-> FALSE, isMicOn |-> FALSE, isCameraOn |-> FALSE]

AppProvider(u, loggedIn) ==
  [id |-> u, currentUser |-> loggedIn, isSignalingConnected |-> loggedIn,
   isInCall |-> FALSE, activeCallData |-> None, incomingCall |-> None,
   localStream |-> None, localAudioStream |-> None, localVideoStream |-> None,
   isScreenSharing |-> FALSE, isMicOn |-> FALSE, isCameraOn |-> FALSE,
   rendered |-> InitialState,
   localAudioStreamRef |-> None, localVideoStreamRef |-> None,
   prevCameraWasOnRef |-> FALSE,
   peerConnectionsRef |-> [p \in Users |-> None],
   \* RTCPeerConnection objects that were replaced in the registry without
   \* close(): still open, no longer reachable
   unclosed |-> [p \in Users |-> 0],
   \* every MediaStreamTrack captured so far; a track's identity is its index
   tracks |-> <<>>,
   \* the suspended async callbacks
   tasks |-> EmptyBag,
   \* the peers for whose RTCPeerConnection createOffer, createAnswer,
   \* setLocalDescription and setRemoteDescription reject
   failingPeers |-> {},
   \* remoteStreams: per peer the kinds of the remote tracks of its stream
   remoteStreams |-> [p \in Users |-> None],
   \* the copies of the broadcasts this client is not the addressee of wait in
   \* its queue for the handler (TRUE) or are consumed on arrival (FALSE)
   queuesEveryCopy |-> FALSE,
   \* users: per id the isOnline of its row, None when the list has no row
   users |-> [p \in Users |-> None],
   usersFetched |-> FALSE,
   presentIds |-> {}, presentIdsRef |-> {},
   \* presentIds changed and the effects that depend on it have not run yet
   presenceEffectsPending |-> FALSE,
   \* signals and store rows issued by the running segment
   out |-> <<>>, rows |-> <<>>]

\* the refs the effect of store.tsx:216-224 keeps
IsInCallRef(s) == s.rendered.isInCall
ActiveCallDataRef(s) == s.rendered.activeCallData
IncomingCallRef(s) == s.rendered.incomingCall

Registered(s) == {p \in Users : s.peerConnectionsRef[p] # None}

\* the offer/answer calls on the connection to p resolve
Negotiates(s, p) == p \notin s.failingPeers

(***************************************************************************)
(* Media objects                                                           *)
(***************************************************************************)
\* getUserMedia / getDisplayMedia: one fresh live track, enabled.  closure is
\* the render of the callback that captured it (its onended handler runs in it).
CaptureIn(s, kind, closure) ==
  [s EXCEPT !.tracks = Append(@, [kind |-> kind, enabled |-> TRUE, live |-> TRUE,
                                  closure |-> closure])]

Capture(s, kind) == CaptureIn(s, kind, InitialState)

NewTrack(s) == Len(s.tracks)

TracksOfKind(s, stream, kinds) == {t \in stream : s.tracks[t].kind \in kinds}

\* the first track of the kinds in a stream, 0 when it has none
FirstTrack(s, stream, kinds) ==
  IF TracksOfKind(s, stream, kinds) = {} THEN 0
  ELSE Min(TracksOfKind(s, stream, kinds))

SetEnabled(s, stream, b) ==
  [s EXCEPT !.tracks = [t \in DOMAIN @ |->
      IF t \in stream /\ @[t].kind = "audio" THEN [@[t] EXCEPT !.enabled = b] ELSE @[t]]]

StopTracks(s, stream) ==
  [s EXCEPT !.tracks = [t \in DOMAIN @ |->
      IF t \in stream THEN [@[t] EXCEPT !.live = FALSE] ELSE @[t]]]

(***************************************************************************)
(* Signal transport                                                        *)
(***************************************************************************)
Signal(type, senderId, recipientId, payload) ==
  [type |-> type, senderId |-> senderId, recipientId |-> recipientId,
   payload |-> payload]

\* recipientId of a broadcast (undefined in the source)
Undefined == ""

sendSignal(s, type, recipientId, payload) ==
  IF s.currentUser /\ s.isSignalingConnected
  THEN [s EXCEPT !.out = Append(@, Signal(type, s.id, recipientId, payload))]
  ELSE s

(***************************************************************************)
(* Peer connection registry                                                *)
(***************************************************************************)
createPeerConnection(s, recipientId) ==
  [s EXCEPT !.unclosed[recipientId] =
                IF s.peerConnectionsRef[recipientId] # None THEN @ + 1 ELSE @,
            !.peerConnectionsRef[recipientId] = Some([audio |-> 0, video |-> 0, remote |-> FALSE])]

\* pc.setRemoteDescription(...) resolved on the connection to senderId
SetRemoteDescription(s, senderId) ==
  [s EXCEPT !.peerConnectionsRef[senderId] = Some([The(@) EXCEPT !.remote = TRUE])]

\* stream.getTracks().forEach(track => pc.addTrack(track, stream))
AddStreamTracks(s, recipientId, stream) ==
  [s EXCEPT !.peerConnectionsRef[recipientId] =
      Some([The(@) EXCEPT !.audio = FirstTrack(s, stream, {"audio"}),
                          !.video = FirstTrack(s, stream, {"camera", "screen"})])]

composeLocalStream(s) ==
  [s EXCEPT !.localStream =
      Some((IF s.localAudioStreamRef = None THEN {} ELSE The(s.localAudioStreamRef))
           \cup (IF s.localVideoStreamRef = None THEN {} ELSE The(s.localVideoStreamRef)))]

cleanupCall(s) ==
  LET a == IF s.localAudioStreamRef = None THEN {} ELSE The(s.localAudioStreamRef)
      v == IF s.localVideoStreamRef = None THEN {} ELSE The(s.localVideoStreamRef)
      s1 == StopTracks(s, a \cup v)
  IN [s1 EXCEPT !.localAudioStreamRef = None,
                !.localAudioStream = IF s.localAudioStreamRef = None THEN @ ELSE None,
                !.localVideoStreamRef = None,
                !.localVideoStream = IF s.localVideoStreamRef = None THEN @ ELSE None,
                !.peerConnectionsRef = [p \in Users |-> None],
                !.remoteStreams = [p \in Users |-> None],
                !.localStream = None,
                !.isInCall = FALSE,
                !.activeCallData = None,
                !.isScreenSharing = FALSE,
                !.isMicOn = FALSE,
                !.isCameraOn = FALSE]

\* pc.onicecandidate of the connection to recipientId
onicecandidate(s, recipientId) == sendSignal(s, "CANDIDATE", recipientId, TRUE)

\* pc.ontrack of the connection to recipientId: a remote track of the kind
\* arrives, in a remote stream that holds the tracks of the kinds in `stream`
ontrack(s, recipientId, kind, stream) ==
  [s EXCEPT !.remoteStreams[recipientId] =
      IF @ # None THEN Some(The(@) \cup {kind}) ELSE Some(stream \cup {kind})]

\* handleRemoteHangup that keeps the session when its last participant left
handleRemoteHangup_KeepsSession(s, senderId) ==
  LET s1 == [s EXCEPT !.peerConnectionsRef[senderId] = None,
                      !.remoteStreams[senderId] = None]
  IN IF s1.activeCallData = None THEN s1
     ELSE [s1 EXCEPT !.activeCallData =
             Some([participantIds |-> Filter(The(s1.activeCallData).participantIds, senderId)])]

handleRemoteHangup(s, senderId) ==
  LET s1 == [s EXCEPT !.peerConnectionsRef[senderId] = None,
                      !.remoteStreams[senderId] = None]
  IN IF s1.activeCallData = None THEN s1
     ELSE LET newIds == Filter(The(s1.activeCallData).participantIds, senderId)
          IN IF newIds = <<>> THEN cleanupCall(s1)
             ELSE [s1 EXCEPT !.activeCallData = Some([participantIds |-> newIds])]

(***************************************************************************)
(* Suspended callbacks                                                     *)
(***************************************************************************)
\* a callback suspended at an await, with the closure of the render it was
\* created in
Task(op, ids, closure, locals) ==
  [op |-> op, ids |-> ids, closure |-> closure, locals |-> locals]

\* the local variables a suspended media callback holds
NoLocals ==
  [vStream |-> None, aStream |-> None, track |-> 0,
   negotiationNeeded |-> FALSE, hasCameraFallback |-> FALSE]

SuspendWith(s, op, closure, locals) ==
  [s EXCEPT !.tasks = @ (+) SetToBag({Task(op, <<>>, closure, locals)})]

Suspend(s, op, ids) ==
  [s EXCEPT !.tasks = @ (+) SetToBag({Task(op, ids, s.rendered, NoLocals)})]

Resumed(s, task) == [s EXCEPT !.tasks = @ (-) SetToBag({task})]

(***************************************************************************)
(* Call session operations                                                 *)
(***************************************************************************)
RECURSIVE CallEach(_, _, _)
\* recipientIds.forEach(async (recipientId) => { ... })
CallEach(s, recipientIds, stream) ==
  IF recipientIds = <<>> THEN s
  ELSE LET recipientId == Head(recipientIds)
           s1 == AddStreamTracks(createPeerConnection(s, recipientId), recipientId, stream)
       IN CallEach(IF Negotiates(s, recipientId)
                   THEN sendSignal(s1, "OFFER", recipientId, TRUE) ELSE s1,
                   Tail(recipientIds), stream)

\* startGroupCall from setIsInCall(true) on, with the stream it uses
StartGroupCallConnect(s, recipientIds, stream) ==
  CallEach([s EXCEPT !.isInCall = TRUE,
                     !.activeCallData = Some([participantIds |-> recipientIds])],
           recipientIds, stream)

\* the muted audio-only stream of startGroupCall, initiateCallConnection and
\* acceptIncomingCall
MutedAudioStream(s) ==
  LET s1 == Capture(s, "audio")
  IN SetEnabled(s1, {NewTrack(s1)}, FALSE)

startGroupCall(s, recipientIds) ==
  IF s.rendered.localStream = None
  THEN Suspend(s, "startGroupCall", recipientIds)
  ELSE StartGroupCallConnect(s, recipientIds, The(s.rendered.localStream))

\* startGroupCall that goes on without a stream when the capture failed
startGroupCallResume_NoAbort(s, task, ok) ==
  IF ~ok THEN StartGroupCallConnect(s, task.ids, {})
  ELSE LET s1 == MutedAudioStream(s)
           stream == {NewTrack(s1)}
       IN StartGroupCallConnect(
            [s1 EXCEPT !.isMicOn = FALSE, !.isCameraOn = FALSE,
                       !.localStream = Some(stream)],
            task.ids, stream)

\* startGroupCall after await getUserMedia({ video: false, audio: true })
startGroupCallResume(s, task, ok) ==
  IF ~ok THEN s
  ELSE LET s1 == MutedAudioStream(s)
           stream == {NewTrack(s1)}
       IN StartGroupCallConnect(
            [s1 EXCEPT !.isMicOn = FALSE, !.isCameraOn = FALSE,
                       !.localStream = Some(stream)],
            task.ids, stream)

AppendParticipant(s, recipientId) ==
  IF s.activeCallData = None THEN s
  ELSE [s EXCEPT !.activeCallData =
          Some([participantIds |-> Append(The(@).participantIds, recipientId)])]

\* initiateCallConnection from createPeerConnection on
InitiateConnect(s, recipientId, stream) ==
  LET s1 == AddStreamTracks(createPeerConnection(s, recipientId), recipientId, stream)
  IN IF Negotiates(s, recipientId) THEN sendSignal(s1, "OFFER", recipientId, TRUE)
     ELSE s1

addToCall(s, recipientId) ==
  IF s.rendered.localStream = None
  THEN Suspend(s, "addToCall", <<recipientId>>)
  ELSE AppendParticipant(
         InitiateConnect(s, recipientId, The(s.rendered.localStream)), recipientId)

\* addToCall after the getUserMedia of initiateCallConnection
addToCallResume(s, task, ok) ==
  LET recipientId == task.ids[1]
      s1 == MutedAudioStream(s)
      stream == {NewTrack(s1)}
  IN AppendParticipant(
       IF ~ok THEN s
       ELSE InitiateConnect([s1 EXCEPT !.localStream = Some(stream), !.isMicOn = FALSE],
                            recipientId, stream),
       recipientId)

acceptIncomingCall(s) ==
  Suspend(s, "acceptIncomingCall", <<The(s.rendered.incomingCall).callerId>>)

\* acceptIncomingCall that answers without joining the caller's session
acceptIncomingCallResume_NoSession(s, task, ok) ==
  IF ~ok THEN s
  ELSE LET callerId == The(task.closure.incomingCall).callerId
           s1 == MutedAudioStream(s)
           stream == {NewTrack(s1)}
           s2 == [s1 EXCEPT !.isMicOn = FALSE, !.isCameraOn = FALSE,
                            !.localStream = Some(stream)]
           s3 == AddStreamTracks(createPeerConnection(s2, callerId), callerId, stream)
       IN [sendSignal(SetRemoteDescription(s3, callerId), "ANSWER", callerId, TRUE)
             EXCEPT !.incomingCall = None]

\* acceptIncomingCall after await getUserMedia({ video: false, audio: true })
acceptIncomingCallResume(s, task, ok) ==
  IF ~ok THEN s
  ELSE LET callerId == The(task.closure.incomingCall).callerId
           s1 == MutedAudioStream(s)
           stream == {NewTrack(s1)}
           s2 == [s1 EXCEPT !.isMicOn = FALSE, !.isCameraOn = FALSE,
                            !.localStream = Some(stream)]
           s3 == AddStreamTracks(createPeerConnection(s2, callerId), callerId, stream)
           s4 == sendSignal(SetRemoteDescription(s3, callerId), "ANSWER", callerId, TRUE)
       IN IF ~Negotiates(s, callerId) THEN s3
          ELSE [s4 EXCEPT !.isInCall = TRUE,
                        !.activeCallData = Some([participantIds |-> <<callerId>>]),
                        !.incomingCall = None]

\* rejectIncomingCall that clears the record without telling the caller
rejectIncomingCall_Silent(s) == [s EXCEPT !.incomingCall = None]

rejectIncomingCall(s) ==
  [sendSignal(s, "HANGUP", The(s.rendered.incomingCall).callerId, FALSE)
     EXCEPT !.incomingCall = None]

RECURSIVE HangupEach(_, _)
HangupEach(s, participantIds) ==
  IF participantIds = <<>> THEN s
  ELSE HangupEach(sendSignal(s, "HANGUP", Head(participantIds), FALSE),
                  Tail(participantIds))

endCall(s) ==
  cleanupCall(IF s.rendered.activeCallData # None /\ s.currentUser
              THEN HangupEach(s, The(s.rendered.activeCallData).participantIds)
              ELSE s)

\* logout(): the session of the user ends; no signal is sent
logout(s) ==
  cleanupCall([s EXCEPT !.currentUser = FALSE,
                        !.incomingCall = None,
                        !.isInCall = FALSE])

\* cleanup of the signaling effect, run when currentUser has changed
signalingCleanup(s) == [s EXCEPT !.isSignalingConnected = FALSE]

(***************************************************************************)
(* Local media controller                                                  *)
(***************************************************************************)
StreamOr(ref, state) == IF ref # None THEN ref ELSE state

\* for (const [recipientId, pc] of peerConnectionsRef.current.entries()): the
\* audio sender of every connection gets the track (replaceTrack or addTrack)
SetAudioSenders(s, track) ==
  [s EXCEPT !.peerConnectionsRef =
      [p \in Users |-> IF @[p] = None THEN None
                       ELSE Some([The(@[p]) EXCEPT !.audio = track])]]

\* the same loop over the video senders; track 0 is replaceTrack(null)
SetVideoSenders(s, track) ==
  [s EXCEPT !.peerConnectionsRef =
      [p \in Users |-> IF @[p] = None THEN None
                       ELSE Some([The(@[p]) EXCEPT !.video = track])]]

\* the loop that only replaces the track of the audio senders that exist
ReplaceAudioSenders(s, track) ==
  [s EXCEPT !.peerConnectionsRef =
      [p \in Users |-> IF @[p] = None \/ The(@[p]).audio = 0 THEN @[p]
                       ELSE Some([The(@[p]) EXCEPT !.audio = track])]]

RECURSIVE OfferEach(_, _)
OfferEach(s, peers) ==
  IF peers = {} THEN s
  ELSE LET p == CHOOSE q \in peers : TRUE
       IN OfferEach(IF Negotiates(s, p) THEN sendSignal(s, "OFFER", p, TRUE) ELSE s,
                    peers \ {p})

\* renegotiate of the render whose localStream is given
renegotiate(s, localStream) ==
  IF localStream = None THEN s ELSE OfferEach(s, Registered(s))

\* toggleMic once an audio stream exists: flip enabled
ToggleMicEnabled(s, audioStream, isMicOn) ==
  LET newStatus == ~isMicOn
      s1 == [SetEnabled(s, audioStream, newStatus) EXCEPT !.isMicOn = newStatus]
      audioTracks == TracksOfKind(s, audioStream, {"audio"})
      liveTracks == {t \in audioTracks : s.tracks[t].live}
      active == IF liveTracks # {} THEN Min(liveTracks)
                ELSE IF audioTracks # {} THEN Min(audioTracks) ELSE 0
  IN IF newStatus /\ active # 0
     THEN SetAudioSenders(s1, active)
     ELSE s1

toggleMic(s) ==
  LET audioStream == StreamOr(s.localAudioStreamRef, s.rendered.localAudioStream)
  IN IF audioStream = None THEN Suspend(s, "toggleMic", <<>>)
     ELSE ToggleMicEnabled(s, The(audioStream), s.rendered.isMicOn)

\* toggleMic after await getUserMedia({ audio: true })
toggleMicResume(s, task, ok) ==
  IF ~ok THEN s
  ELSE LET s1 == Capture(s, "audio")
           newTrack == NewTrack(s1)
           s2 == [s1 EXCEPT !.localAudioStream = Some({newTrack}),
                            !.localAudioStreamRef = Some({newTrack}),
                            !.isMicOn = TRUE]
           s3 == SetAudioSenders(s2, newTrack)
       IN renegotiate(composeLocalStream(s3), task.closure.localStream)

\* a stream object loses tracks: every holder of the object sees it
RemoveTracks(s, stream, gone) ==
  [s EXCEPT !.localVideoStream = IF @ = Some(stream) THEN Some(stream \ gone) ELSE @,
            !.localVideoStreamRef = IF @ = Some(stream) THEN Some(stream \ gone) ELSE @]

\* stopScreenSharing from "2. NOW Stop and remove screen tracks" on
StopScreenFinish(s, closure, locals, negotiationNeeded, hasCameraFallback) ==
  LET vStream == The(locals.vStream)
      screenTracks == TracksOfKind(s, vStream, {"screen"})
      s1 == [RemoveTracks(StopTracks(s, screenTracks), vStream, screenTracks)
               EXCEPT !.isScreenSharing = FALSE]
      liveAudio == IF locals.aStream = None THEN {}
                   ELSE {t \in TracksOfKind(s1, The(locals.aStream), {"audio"}) :
                           s1.tracks[t].live}
      s2 == IF liveAudio = {} THEN s1
            ELSE ReplaceAudioSenders(s1, Min(liveAudio))
      s3 == composeLocalStream(s2)
      s4 == IF negotiationNeeded THEN renegotiate(s3, closure.localStream) ELSE s3
  IN sendSignal(s4, "SCREEN_STOPPED", Undefined, hasCameraFallback)

\* toggleCamera from "Set local video stream" on, with the captured camera track
ToggleCameraInstall(s, closure, videoTrack) ==
  LET s1 == [s EXCEPT !.localVideoStream = Some({videoTrack}),
                      !.localVideoStreamRef = Some({videoTrack}),
                      !.isCameraOn = TRUE]
      s2 == SetVideoSenders(s1, videoTrack)
  IN renegotiate(composeLocalStream(s2), closure.localStream)

\* what runs after stopScreenSharing returns: toggleCamera awaits it with a
\* captured camera track, the other callers end
AfterStopScreenSharing(s, closure, locals) ==
  IF locals.track # 0 THEN ToggleCameraInstall(s, closure, locals.track) ELSE s

\* stopScreenSharing of the render `closure`; track is the camera track of an
\* awaiting toggleCamera, 0 for the other callers
stopScreenSharing(s, closure, track) ==
  LET vStream == StreamOr(s.localVideoStreamRef, closure.localVideoStream)
      aStream == StreamOr(s.localAudioStreamRef, closure.localAudioStream)
      locals == [NoLocals EXCEPT !.vStream = vStream, !.aStream = aStream, !.track = track]
  IN IF Registered(s) = {} \/ vStream = None
     THEN AfterStopScreenSharing(s, closure, locals)
     ELSE IF s.prevCameraWasOnRef
     THEN SuspendWith(s, "stopScreenSharing", closure, locals)
     ELSE AfterStopScreenSharing(
            StopScreenFinish(SetVideoSenders(s, 0),
                             closure, locals, FALSE, FALSE),
            closure, locals)

\* stopScreenSharing after await getUserMedia({ video: true }): the camera is
\* restored and the callback waits for the senders' replaceTrack
stopScreenSharingResume(s, task, ok) ==
  LET s1 == Capture(s, "camera")
      camTrack == NewTrack(s1)
      s2 == [s1 EXCEPT !.localVideoStream = Some({camTrack}),
                       !.localVideoStreamRef = Some({camTrack}),
                       !.isCameraOn = TRUE]
      negotiationNeeded == \E p \in Registered(s) : The(s.peerConnectionsRef[p]).video = 0
      restored == SetVideoSenders(s2, camTrack)
      cleared == SetVideoSenders(s, 0)
  IN IF ok /\ Registered(s) # {}
     THEN SuspendWith(restored, "stopScreenSharing:restored", task.closure,
                      [task.locals EXCEPT !.negotiationNeeded = negotiationNeeded,
                                          !.hasCameraFallback = TRUE])
     ELSE AfterStopScreenSharing(
            StopScreenFinish([(IF ok THEN restored ELSE cleared)
                                EXCEPT !.prevCameraWasOnRef = FALSE],
                             task.closure, task.locals, FALSE, ok),
            task.closure, task.locals)

\* stopScreenSharing after the senders took the camera track
stopScreenSharingRestored(s, task) ==
  AfterStopScreenSharing(
    StopScreenFinish([s EXCEPT !.prevCameraWasOnRef = FALSE], task.closure, task.locals,
                     task.locals.negotiationNeeded, task.locals.hasCameraFallback),
    task.closure, task.locals)

toggleCamera(s) ==
  LET videoStream == StreamOr(s.localVideoStreamRef, s.rendered.localVideoStream)
  IN IF ~s.rendered.isCameraOn THEN Suspend(s, "toggleCamera", <<>>)
     ELSE IF videoStream = None THEN s
     ELSE LET stream == The(videoStream)
              camTracks == TracksOfKind(s, stream, {"camera"})
              s1 == RemoveTracks(StopTracks(s, camTracks), stream, camTracks)
              s2 == [s1 EXCEPT
                       !.localVideoStream =
                          IF stream \ camTracks # {} THEN Some(stream \ camTracks) ELSE None,
                       !.localVideoStreamRef =
                          IF s.rendered.localVideoStream = Some(stream)
                          THEN Some(stream \ camTracks)
                          ELSE s.rendered.localVideoStream,
                       !.isCameraOn = FALSE]
          IN composeLocalStream(SetVideoSenders(s2, 0))

\* toggleCamera after await getUserMedia({ video: true })
toggleCameraResume(s, task, ok) ==
  IF ~ok THEN s
  ELSE LET s1 == Capture(s, "camera")
       IN IF task.closure.isScreenSharing
          THEN stopScreenSharing(s1, task.closure, NewTrack(s1))
          ELSE ToggleCameraInstall(s1, task.closure, NewTrack(s1))

toggleScreenShare(s) ==
  IF Registered(s) = {} THEN s
  ELSE IF s.rendered.isScreenSharing THEN stopScreenSharing(s, s.rendered, 0)
  ELSE Suspend(s, "toggleScreenShare", <<>>)

\* toggleScreenShare that forgets whether the camera was on
toggleScreenShareResume_ForgetsCamera(s, task, ok) ==
  IF ~ok THEN s
  ELSE LET s1 == CaptureIn(s, "screen", task.closure)
           screenTrack == NewTrack(s1)
           oldCameraStream == IF task.closure.isCameraOn /\ s.localVideoStreamRef # None
                              THEN The(s.localVideoStreamRef) ELSE {}
           s2 == [s1 EXCEPT !.prevCameraWasOnRef = FALSE,
                            !.isCameraOn = IF task.closure.isCameraOn THEN FALSE ELSE @,
                            !.localVideoStream = Some({screenTrack}),
                            !.localVideoStreamRef = Some({screenTrack})]
           negotiationNeeded == \E p \in Registered(s) : The(s.peerConnectionsRef[p]).video = 0
           s3 == SetVideoSenders(s2, screenTrack)
           s4 == StopTracks(s3, TracksOfKind(s3, oldCameraStream, {"camera", "screen"}))
           s5 == composeLocalStream([s4 EXCEPT !.isScreenSharing = TRUE])
           s6 == IF negotiationNeeded THEN renegotiate(s5, task.closure.localStream) ELSE s5
       IN sendSignal(s6, "SCREEN_STARTED", Undefined, FALSE)

\* toggleScreenShare after await getDisplayMedia(...)
toggleScreenShareResume(s, task, ok) ==
  IF ~ok THEN s
  ELSE LET s1 == CaptureIn(s, "screen", task.closure)
           screenTrack == NewTrack(s1)
           oldCameraStream == IF task.closure.isCameraOn /\ s.localVideoStreamRef # None
                              THEN The(s.localVideoStreamRef) ELSE {}
           s2 == [s1 EXCEPT !.prevCameraWasOnRef = task.closure.isCameraOn,
                            !.isCameraOn = IF task.closure.isCameraOn THEN FALSE ELSE @,
                            !.localVideoStream = Some({screenTrack}),
                            !.localVideoStreamRef = Some({screenTrack})]
           negotiationNeeded == \E p \in Registered(s) : The(s.peerConnectionsRef[p]).video = 0
           s3 == SetVideoSenders(s2, screenTrack)
           s4 == StopTracks(s3, TracksOfKind(s3, oldCameraStream, {"camera", "screen"}))
           s5 == composeLocalStream([s4 EXCEPT !.isScreenSharing = TRUE])
           s6 == IF negotiationNeeded THEN renegotiate(s5, task.closure.localStream) ELSE s5
       IN sendSignal(s6, "SCREEN_STARTED", Undefined, FALSE)

\* screenTrack.onended = () => { stopScreenSharing(); }: the user agent ended
\* the capture of a screen track
onended(s, screenTrack) ==
  stopScreenSharing([s EXCEPT !.tracks[screenTrack].live = FALSE],
                    s.tracks[screenTrack].closure, 0)

(***************************************************************************)
(* Presence and the users list                                             *)
(***************************************************************************)
\* .on('presence', { event: 'sync' }, ...): setPresentIds(activeIds)
onPresenceSync(s, activeIds) ==
  [s EXCEPT !.presentIds = activeIds, !.presenceEffectsPending = TRUE]

\* the effects with dependency [presentIds], after the render
presenceEffects(s) ==
  [s EXCEPT !.presentIdsRef = s.presentIds,
            !.users = [p \in Users |->
                         IF @[p] = None THEN None ELSE Some(p \in s.presentIds)],
            !.presenceEffectsPending = FALSE]

\* fetchData: setUsers(userData.map(mapUserFromDB)); is_online is the column
\* of each row the query returned
fetchData(s, userData, is_online) ==
  [s EXCEPT !.users = [p \in Users |->
                         IF p \in userData THEN Some(is_online[p]) ELSE None],
            !.usersFetched = TRUE]

\* the users-table change handler
onUsersChange(s, eventType, id) ==
  CASE eventType = "UPDATE" ->
         IF s.users[id] = None THEN s
         ELSE [s EXCEPT !.users[id] = Some(id \in s.presentIdsRef)]
    [] eventType = "INSERT" ->
         [s EXCEPT !.users[id] = Some(id \in s.presentIdsRef)]
    [] eventType = "DELETE" -> [s EXCEPT !.users[id] = None]
    [] OTHER -> s

(***************************************************************************)
(* The signal handler                                                      *)
(***************************************************************************)
Insert(s, table, sender_id, recipient_id, type) ==
  [s EXCEPT !.rows = Append(@, [table |-> table, sender_id |-> sender_id,
                                recipient_id |-> recipient_id, type |-> type])]

OnOffer(s, senderId) ==
  LET currentIsInCall == IsInCallRef(s)
      isParticipant == /\ ActiveCallDataRef(s) # None
                       /\ Includes(The(ActiveCallDataRef(s)).participantIds, senderId)
  IN IF currentIsInCall /\ ~isParticipant THEN s
     ELSE IF currentIsInCall /\ isParticipant
     THEN IF s.peerConnectionsRef[senderId] # None /\ Negotiates(s, senderId)
          THEN sendSignal(SetRemoteDescription(s, senderId), "ANSWER", senderId, TRUE)
          ELSE s
     ELSE [s EXCEPT !.incomingCall = Some([callerId |-> senderId])]

\* the ANSWER handler that appends the sender whether it is a participant or not
OnAnswer_AppendsAgain(s, senderId) ==
  IF s.peerConnectionsRef[senderId] = None \/ ~Negotiates(s, senderId) THEN s
  ELSE AppendParticipant(SetRemoteDescription(s, senderId), senderId)

OnAnswer(s, senderId) ==
  IF s.peerConnectionsRef[senderId] = None \/ ~Negotiates(s, senderId) THEN s
  ELSE LET s1 == SetRemoteDescription(s, senderId)
       IN IF s1.activeCallData = None THEN s1
          ELSE IF Includes(The(s1.activeCallData).participantIds, senderId) THEN s1
          ELSE AppendParticipant(s1, senderId)

OnHangup(s, senderId) ==
  IF IncomingCallRef(s) # None /\ The(IncomingCallRef(s)).callerId = senderId
  THEN Suspend(Insert(s, "notifications", senderId, s.id, "MISSED_CALL"),
               "HANGUP:notifications", <<senderId>>)
  ELSE handleRemoteHangup(s, senderId)

\* the HANGUP handler after await supabase.from('notifications').insert(...)
OnHangupNotified(s, task) ==
  Suspend(Insert(s, "messages", task.ids[1], s.id, "missed_call"),
          "HANGUP:messages", task.ids)

\* the HANGUP handler after await supabase.from('messages').insert(...)
OnHangupRecorded(s, task) ==
  handleRemoteHangup([s EXCEPT !.incomingCall = None], task.ids[1])

\* the SCREEN_STOPPED handler that drops the video whatever the sender restored
OnScreenStopped_DropsVideo(s, senderId, hasCameraFallback) ==
  IF s.remoteStreams[senderId] = None THEN s
  ELSE [s EXCEPT !.remoteStreams[senderId] = Some(The(@) \cap {"audio"})]

OnScreenStopped(s, senderId, hasCameraFallback) ==
  IF hasCameraFallback \/ s.remoteStreams[senderId] = None THEN s
  ELSE [s EXCEPT !.remoteStreams[senderId] = Some(The(@) \cap {"audio"})]

\* the signal handler without its recipient and sender filter
onSignal_Unfiltered(s, msg) ==
  CASE msg.type = "OFFER" -> OnOffer(s, msg.senderId)
    [] msg.type = "ANSWER" -> OnAnswer(s, msg.senderId)
    [] msg.type = "HANGUP" -> OnHangup(s, msg.senderId)
    [] msg.type = "SCREEN_STOPPED" -> OnScreenStopped(s, msg.senderId, msg.payload)
    [] OTHER -> s

onSignal(s, msg) ==
  IF msg.recipientId # Undefined /\ msg.recipientId # s.id /\ msg.type # "USER_ONLINE"
  THEN s
  ELSE IF msg.senderId = s.id THEN s
  ELSE CASE msg.type = "OFFER" -> OnOffer(s, msg.senderId)
         [] msg.type = "ANSWER" -> OnAnswer(s, msg.senderId)
         [] msg.type = "HANGUP" -> OnHangup(s, msg.senderId)
         [] msg.type = "SCREEN_STOPPED" -> OnScreenStopped(s, msg.senderId, msg.payload)
         [] OTHER -> s

\* a suspended callback runs on
Resume(s, task, ok) ==
  LET s1 == Resumed(s, task)
  IN CASE task.op = "startGroupCall" -> startGroupCallResume(s1, task, ok)
       [] task.op = "addToCall" -> addToCallResume(s1, task, ok)
       [] task.op = "acceptIncomingCall" -> acceptIncomingCallResume(s1, task, ok)
       [] task.op = "toggleMic" -> toggleMicResume(s1, task, ok)
       [] task.op = "toggleCamera" -> toggleCameraResume(s1, task, ok)
       [] task.op = "toggleScreenShare" -> toggleScreenShareResume(s1, task, ok)
       [] task.op = "stopScreenSharing" -> stopScreenSharingResume(s1, task, ok)
       [] task.op = "stopScreenSharing:restored" -> stopScreenSharingRestored(s1, task)
       [] task.op = "HANGUP:notifications" -> OnHangupNotified(s1, task)
       [] task.op = "HANGUP:messages" -> OnHangupRecorded(s1, task)
       [] OTHER -> s1

\* a render and the effect of store.tsx:216-224 after it
Render(s) ==
  [s EXCEPT !.rendered = Snapshot(s),
            !.localAudioStreamRef = s.localAudioStream,
            !.localVideoStreamRef = s.localVideoStream]

(***************************************************************************)
(* The system: the clients, the signaling channel and the store            *)
(***************************************************************************)
\* The broadcast channel 'signaling' hands a message to every subscribed
\* client, and the handler of a client the message is not addressed to, or that
\* has the sender's id, returns at once (store.tsx:412-413): such a copy is
\* consumed here, on arrival, unless the client queues every copy.
Receives(d, msg) ==
  /\ client[d].isSignalingConnected
  /\ \/ client[d].queuesEveryCopy
     \/ d # msg.senderId /\ msg.recipientId \in {d, Undefined}

RECURSIVE InsertRows(_, _, _)
InsertRows(table, rows, name) ==
  IF rows = <<>> THEN table
  ELSE InsertRows(IF Head(rows).table = name
                  THEN table (+) SetToBag({[sender_id |-> Head(rows).sender_id,
                                            recipient_id |-> Head(rows).recipient_id,
                                            type |-> Head(rows).type]})
                  ELSE table,
                  Tail(rows), name)

\* What the callee of a pending call has seen of it: `hungUp` when a HANGUP of
\* the caller of the pending incomingCall record was delivered, `count` the
\* calls of each caller that were hung up while pending.  mark is "ring" when
\* the segment recorded a new incoming call, the caller's id when it began to
\* handle the HANGUP of the pending caller.
Abandoned(g, s2, mark) ==
  LET g1 == IF mark # "" /\ mark # "ring" /\ ~g.hungUp
            THEN [count |-> [g.count EXCEPT ![mark] = @ + 1], hungUp |-> TRUE]
            ELSE IF mark = "ring" THEN [g EXCEPT !.hungUp = FALSE]
            ELSE g
  IN IF s2.incomingCall = None THEN [g1 EXCEPT !.hungUp = FALSE] ELSE g1

\* client c ends a segment in state s2; inb is the channel before its sends
Commit(c, s2, inb, mark) ==
  /\ client' = [client EXCEPT ![c] = [s2 EXCEPT !.out = <<>>, !.rows = <<>>]]
  /\ inbox' = [d \in Users |-> inb[d] \o SelectSeq(s2.out, LAMBDA msg : Receives(d, msg))]
  /\ \A d \in Users : Len(inbox'[d]) <= MaxInbox
  /\ messages' = InsertRows(messages, s2.rows, "messages")
  /\ notifications' = InsertRows(notifications, s2.rows, "notifications")
  /\ abandonedCalls' = [abandonedCalls EXCEPT ![c] = Abandoned(@, s2, mark)]

\* a UI callback of client c runs its first segment
Invoke(c, s2) ==
  /\ opsLeft > 0
  /\ client[c].currentUser
  /\ opsLeft' = opsLeft - 1
  /\ Commit(c, s2, inbox, "")

RecipientLists ==
  {<<u>> : u \in Users} \cup {<<"u2", "u3">>}

StartGroupCall(c) ==
  \E recipientIds \in RecipientLists :
    Invoke(c, startGroupCall(client[c], recipientIds))

AddToCall(c) ==
  \E recipientId \in Users :
    /\ client[c].rendered.isInCall
    /\ client[c].rendered.activeCallData # None
    /\ Invoke(c, addToCall(client[c], recipientId))

AcceptIncomingCall(c) ==
  /\ client[c].rendered.incomingCall # None
  /\ Invoke(c, acceptIncomingCall(client[c]))

RejectIncomingCall(c) ==
  /\ client[c].rendered.incomingCall # None
  /\ Invoke(c, rejectIncomingCall(client[c]))

EndCall(c) ==
  /\ client[c].rendered.isInCall
  /\ Invoke(c, endCall(client[c]))

ToggleMic(c) == Invoke(c, toggleMic(client[c]))

ToggleCamera(c) == Invoke(c, toggleCamera(client[c]))

ToggleScreenShare(c) == Invoke(c, toggleScreenShare(client[c]))

\* the user agent ends the capture of one of c's live screen tracks
ScreenEnded(c) ==
  \E screenTrack \in 1..Len(client[c].tracks) :
    /\ client[c].tracks[screenTrack].kind = "screen"
    /\ client[c].tracks[screenTrack].live
    /\ Commit(c, onended(client[c], screenTrack), inbox, "")
    /\ UNCHANGED opsLeft

Mark(s, msg) ==
  IF onSignal(s, msg) = s /\ msg.type # "HANGUP" THEN ""
  ELSE IF msg.type = "OFFER" /\ ~IsInCallRef(s) THEN "ring"
  ELSE IF /\ msg.type = "HANGUP" /\ msg.senderId # s.id
          /\ msg.recipientId \in {Undefined, s.id}
          /\ s.incomingCall = Some([callerId |-> msg.senderId]) THEN msg.senderId
  ELSE ""

\* the channel delivers its next message to client c
Deliver(c) ==
  /\ inbox[c] # <<>>
  /\ Commit(c, onSignal(client[c], Head(inbox[c])),
            [inbox EXCEPT ![c] = Tail(@)], Mark(client[c], Head(inbox[c])))
  /\ UNCHANGED opsLeft

\* a media capture or a store insert of client c settles
Settle(c) ==
  \E task \in BagToSet(client[c].tasks), ok \in BOOLEAN :
    /\ ok \/ task.op \notin {"HANGUP:notifications", "HANGUP:messages",
                             "stopScreenSharing:restored"}
    /\ Commit(c, Resume(client[c], task, ok), inbox, "")
    /\ UNCHANGED opsLeft

Rerender(c) ==
  /\ client[c].rendered # Snapshot(client[c])
  /\ Commit(c, Render(client[c]), inbox, "")
  /\ UNCHANGED opsLeft

Init ==
  /\ client = [u \in Users |-> AppProvider(u, TRUE)]
  /\ inbox = [u \in Users |-> <<>>]
  /\ messages = EmptyBag
  /\ notifications = EmptyBag
  /\ opsLeft = MaxOps
  /\ abandonedCalls = [u \in Users |-> [count |-> [p \in Users |-> 0], hungUp |-> FALSE]]

Next ==
  \E c \in Users :
    \/ StartGroupCall(c)
    \/ AddToCall(c)
    \/ AcceptIncomingCall(c)
    \/ RejectIncomingCall(c)
    \/ EndCall(c)
    \/ Deliver(c)
    \/ Settle(c)
    \/ Rerender(c)

Spec == Init /\ [][Next]_vars

(***************************************************************************)
(* One user works the media controls, alone and in calls to the others     *)
(***************************************************************************)
MaxMediaOps == 4

InitMedia ==
  /\ client = [u \in Users |-> AppProvider(u, TRUE)]
  /\ inbox = [u \in Users |-> <<>>]
  /\ messages = EmptyBag
  /\ notifications = EmptyBag
  /\ opsLeft = MaxMediaOps
  /\ abandonedCalls = [u \in Users |-> [count |-> [p \in Users |-> 0], hungUp |-> FALSE]]

StartCall(c, recipientId) == Invoke(c, startGroupCall(client[c], <<recipientId>>))

NextMedia ==
  \/ \E recipientId \in {"u2", "u3"} : StartCall("u1", recipientId)
  \/ ToggleMic("u1")
  \/ ToggleCamera("u1")
  \/ ToggleScreenShare("u1")
  \/ ScreenEnded("u1")
  \/ EndCall("u1")
  \/ Settle("u1")
  \/ Rerender("u1")
  \/ \E c \in Users : Deliver(c)

SpecMedia == InitMedia /\ [][NextMedia]_vars

(***************************************************************************)
(* One call between two idle clients: u1 calls u2 once, u2 may accept,     *)
(* either may end the call.  The channel delivers, captures and inserts    *)
(* settle, and React renders, so these steps are weakly fair.              *)
(***************************************************************************)
MaxCallOps == 4

InitCall ==
  /\ client = [u \in Users |-> AppProvider(u, TRUE)]
  /\ inbox = [u \in Users |-> <<>>]
  /\ messages = EmptyBag
  /\ notifications = EmptyBag
  /\ opsLeft = MaxCallOps
  /\ abandonedCalls = [u \in Users |-> [count |-> [p \in Users |-> 0], hungUp |-> FALSE]]

NextCall ==
  \/ opsLeft = MaxCallOps /\ StartCall("u1", "u2")
  \/ AcceptIncomingCall("u2")
  \/ \E c \in {"u1", "u2"} : EndCall(c)
  \/ \E c \in Users : Deliver(c) \/ Settle(c) \/ Rerender(c)

FairCall ==
  \A c \in Users : WF_vars(Deliver(c)) /\ WF_vars(Settle(c)) /\ WF_vars(Rerender(c))

SpecCall == InitCall /\ [][NextCall]_vars /\ FairCall

(***************************************************************************)
(* Calls in which captures fail and the offer/answer calls of one client    *)
(* reject for one peer                                                     *)
(***************************************************************************)
MaxFaultOps == 3

InitFaults ==
  /\ \E pair \in {<<"u1", "u2">>, <<"u2", "u1">>} :
       client = [u \in Users |->
                   [AppProvider(u, TRUE) EXCEPT
                      !.failingPeers = IF u = pair[1] THEN {pair[2]} ELSE {}]]
  /\ inbox = [u \in Users |-> <<>>]
  /\ messages = EmptyBag
  /\ notifications = EmptyBag
  /\ opsLeft = MaxFaultOps
  /\ abandonedCalls = [u \in Users |-> [count |-> [p \in Users |-> 0], hungUp |-> FALSE]]

\* {isInCall && <CallInterface />}: the call controls are on screen
CallInterface(c) == client[c].rendered.isInCall

NextFaults ==
  \/ StartGroupCall("u1")
  \/ AddToCall("u1")
  \/ CallInterface("u1") /\ ToggleMic("u1")
  \/ CallInterface("u1") /\ ToggleCamera("u1")
  \/ CallInterface("u1") /\ ToggleScreenShare("u1")
  \/ AcceptIncomingCall("u2")
  \/ \E c \in Users : Deliver(c) \/ Settle(c) \/ Rerender(c)

SpecFaults == InitFaults /\ [][NextFaults]_vars

(***************************************************************************)
(* One call between u1 and u2 on a channel whose every copy reaches the    *)
(* handlers: every client, u3 and the sender's own id included, is handed  *)
(* every broadcast.  Connections gather ICE candidates and remote tracks.  *)
(***************************************************************************)
MaxChannelOps == 3

InitChannel ==
  /\ client = [u \in Users |-> [AppProvider(u, TRUE) EXCEPT !.queuesEveryCopy = TRUE]]
  /\ inbox = [u \in Users |-> <<>>]
  /\ messages = EmptyBag
  /\ notifications = EmptyBag
  /\ opsLeft = MaxChannelOps
  /\ abandonedCalls = [u \in Users |-> [count |-> [p \in Users |-> 0], hungUp |-> FALSE]]

\* the connection of c to a peer found an ICE candidate
IceCandidate(c) ==
  \E recipientId \in Registered(client[c]) :
    Invoke(c, onicecandidate(client[c], recipientId))

RemoteKinds == {"audio", "video"}

\* a remote track arrives on a connection of c whose remote description is set
OnTrack(c) ==
  \E recipientId \in Registered(client[c]), kind \in RemoteKinds, stream \in SUBSET RemoteKinds :
    /\ The(client[c].peerConnectionsRef[recipientId]).remote
    /\ ontrack(client[c], recipientId, kind, stream) # client[c]
    /\ Commit(c, ontrack(client[c], recipientId, kind, stream), inbox, "")
    /\ UNCHANGED opsLeft

NextChannel ==
  \/ opsLeft = MaxChannelOps /\ StartCall("u1", "u2")
  \/ AcceptIncomingCall("u2")
  \/ RejectIncomingCall("u2")
  \/ \E c \in {"u1", "u2"} : EndCall(c) \/ IceCandidate(c) \/ OnTrack(c)
  \/ \E c \in Users : Deliver(c) \/ Settle(c) \/ Rerender(c)

SpecChannel == InitChannel /\ [][NextChannel]_vars

(***************************************************************************)
(* u1 shares its screen in a call that u2 accepted: u2 receives u1's       *)
(* tracks, u3 only hears the broadcasts                                    *)
(***************************************************************************)
MaxScreenOps == 4

InitScreen ==
  /\ client = [u \in Users |-> AppProvider(u, TRUE)]
  /\ inbox = [u \in Users |-> <<>>]
  /\ messages = EmptyBag
  /\ notifications = EmptyBag
  /\ opsLeft = MaxScreenOps
  /\ abandonedCalls = [u \in Users |-> [count |-> [p \in Users |-> 0], hungUp |-> FALSE]]

NextScreen ==
  \/ opsLeft = MaxScreenOps /\ StartCall("u1", "u2")
  \/ AcceptIncomingCall("u2")
  \/ CallInterface("u1") /\ ToggleCamera("u1")
  \/ CallInterface("u1") /\ ToggleScreenShare("u1")
  \/ ScreenEnded("u1")
  \/ OnTrack("u2")
  \/ \E c \in Users : Deliver(c) \/ Settle(c) \/ Rerender(c)

SpecScreen == InitScreen /\ [][NextScreen]_vars

(***************************************************************************)
(* The users list of one client: the initial fetch, the presence syncs and *)
(* the changes of the users table arrive in any order                      *)
(***************************************************************************)
MaxPresenceOps == 3

InitPresence ==
  /\ client = [u \in Users |-> AppProvider(u, TRUE)]
  /\ inbox = [u \in Users |-> <<>>]
  /\ messages = EmptyBag
  /\ notifications = EmptyBag
  /\ opsLeft = MaxPresenceOps
  /\ abandonedCalls = [u \in Users |-> [count |-> [p \in Users |-> 0], hungUp |-> FALSE]]

PresenceSync(c) ==
  \E activeIds \in SUBSET Users :
    Invoke(c, onPresenceSync(client[c], activeIds))

\* the reply of the initial select arrives: the table holds u1 and u2, and u3
\* when its row was inserted before the select ran
FetchUsers(c) ==
  \E userData \in {{"u1", "u2"}, Users}, is_online \in [Users -> BOOLEAN] :
    /\ ~client[c].usersFetched
    /\ Commit(c, fetchData(client[c], userData, is_online), inbox, "")
    /\ UNCHANGED opsLeft

UsersChange(c) ==
  \E eventType \in {"UPDATE", "INSERT", "DELETE"}, id \in Users :
    /\ eventType = "INSERT" => id = "u3" /\ client[c].users[id] = None
    /\ eventType = "DELETE" => id = "u3"
    /\ onUsersChange(client[c], eventType, id) # client[c]
    /\ Invoke(c, onUsersChange(client[c], eventType, id))

PresenceEffects(c) ==
  /\ client[c].presenceEffectsPending
  /\ Commit(c, presenceEffects(client[c]), inbox, "")
  /\ UNCHANGED opsLeft

NextPresence ==
  \/ PresenceSync("u1")
  \/ FetchUsers("u1")
  \/ UsersChange("u1")
  \/ PresenceEffects("u1")

SpecPresence == InitPresence /\ [][NextPresence]_vars

(***************************************************************************)
(* u1, in a call to u2, turns the camera on or not, then starts and stops  *)
(* a screen share, each control pressed when the last one has finished;    *)
(* every capture succeeds                                                  *)
(***************************************************************************)
MaxShareOps == 4

InitShare ==
  /\ client = [u \in Users |-> AppProvider(u, TRUE)]
  /\ inbox = [u \in Users |-> <<>>]
  /\ messages = EmptyBag
  /\ notifications = EmptyBag
  /\ opsLeft = MaxShareOps
  /\ abandonedCalls = [u \in Users |-> [count |-> [p \in Users |-> 0], hungUp |-> FALSE]]

\* the callbacks of c have finished and the screen shows their result
Finished(c) ==
  /\ client[c].tasks = EmptyBag
  /\ client[c].rendered = Snapshot(client[c])

ScreenTracks(s) == {k \in 1..Len(s.tracks) : s.tracks[k].kind = "screen"}

CameraTracks(s) == {k \in 1..Len(s.tracks) : s.tracks[k].kind = "camera"}

\* a media capture of client c resolves
Succeed(c) ==
  \E task \in BagToSet(client[c].tasks) :
    /\ Commit(c, Resume(client[c], task, TRUE), inbox, "")
    /\ UNCHANGED opsLeft

NextShare ==
  \/ opsLeft = MaxShareOps /\ StartCall("u1", "u2")
  \/ /\ Finished("u1") /\ CallInterface("u1")
     /\ ~client["u1"].isCameraOn /\ ScreenTracks(client["u1"]) = {}
     /\ ToggleCamera("u1")
  \/ Finished("u1") /\ CallInterface("u1") /\ ToggleScreenShare("u1")
  \/ ScreenEnded("u1")
  \/ Succeed("u1")
  \/ Rerender("u1")
  \/ \E c \in Users : Deliver(c)

SpecShare == InitShare /\ [][NextShare]_vars

(***************************************************************************)
(* u1 and u3 each call u2, who does not answer; when u2 has been handed     *)
(* both offers the callers hang up, in either order                        *)
(***************************************************************************)
MaxMissedOps == 4

Callers == {"u1", "u3"}

InitMissed ==
  /\ client = [u \in Users |-> AppProvider(u, TRUE)]
  /\ inbox = [u \in Users |-> <<>>]
  /\ messages = EmptyBag
  /\ notifications = EmptyBag
  /\ opsLeft = MaxMissedOps
  /\ abandonedCalls = [u \in Users |-> [count |-> [p \in Users |-> 0], hungUp |-> FALSE]]

\* the OFFERs of both callers have been handled by u2
BothOffered ==
  /\ opsLeft <= MaxMissedOps - 2
  /\ \A X \in Callers : client[X].tasks = EmptyBag
  /\ \A i \in 1..Len(inbox["u2"]) : inbox["u2"][i].type # "OFFER"

NextMissed ==
  \/ opsLeft = MaxMissedOps /\ StartCall("u1", "u2")
  \/ opsLeft = MaxMissedOps - 1 /\ StartCall("u3", "u2")
  \/ \E X \in Callers : BothOffered /\ Finished(X) /\ EndCall(X)
  \/ \E c \in Users : Deliver(c) \/ Succeed(c) \/ Rerender(c)

SpecMissed == InitMissed /\ [][NextMissed]_vars

(***************************************************************************)
(* One call between u1 and u2 that either side leaves by ending the call   *)
(* or, once both are in it, by logging out.  The channel delivers,         *)
(* captures and inserts settle, React renders and runs the effect cleanups *)
(***************************************************************************)
MaxLogoutOps == 3

InitLogout ==
  /\ client = [u \in Users |-> AppProvider(u, TRUE)]
  /\ inbox = [u \in Users |-> <<>>]
  /\ messages = EmptyBag
  /\ notifications = EmptyBag
  /\ opsLeft = MaxLogoutOps
  /\ abandonedCalls = [u \in Users |-> [count |-> [p \in Users |-> 0], hungUp |-> FALSE]]

\* c and p are in a call with each other
InCallWith(c, p) ==
  /\ client[c].isInCall /\ client[c].activeCallData # None
  /\ Includes(The(client[c].activeCallData).participantIds, p)
  /\ client[p].isInCall /\ client[p].activeCallData # None
  /\ Includes(The(client[p].activeCallData).participantIds, c)

Logout(c) == Invoke(c, logout(client[c]))

\* the channel of a client that logged out is removed: what was on its way to
\* the client is not delivered
Unsubscribe(c) ==
  /\ ~client[c].currentUser
  /\ client[c].isSignalingConnected
  /\ Commit(c, signalingCleanup(client[c]), [inbox EXCEPT ![c] = <<>>], "")
  /\ UNCHANGED opsLeft

NextLogout ==
  \/ opsLeft = MaxLogoutOps /\ StartCall("u1", "u2")
  \/ AcceptIncomingCall("u2")
  \/ \E c \in {"u1", "u2"} : EndCall(c)
  \/ \E c \in {"u1", "u2"} :
       /\ Finished(c) /\ CallInterface(c)
       /\ \E p \in Users : InCallWith(c, p)
       /\ Logout(c)
  \/ \E c \in Users : Deliver(c) \/ Settle(c) \/ Rerender(c) \/ Unsubscribe(c)

FairLogout ==
  \A c \in Users : /\ WF_vars(Deliver(c)) /\ WF_vars(Settle(c))
                    /\ WF_vars(Rerender(c)) /\ WF_vars(Unsubscribe(c))

SpecLogout == InitLogout /\ [][NextLogout]_vars /\ FairLogout

(***************************************************************************)
(* Claims                                                                  *)
(***************************************************************************)
ParticipantIds(s) ==
  IF s.activeCallData = None THEN <<>> ELSE The(s.activeCallData).participantIds

Range(seq) == {seq[i] : i \in 1..Len(seq)}

Count(seq, x) == Cardinality({i \in 1..Len(seq) : seq[i] = x})

\* no callback of the client is suspended, no message waits, the last render
\* shows the state
Quiet(c) ==
  /\ client[c].tasks = EmptyBag
  /\ inbox[c] = <<>>
  /\ client[c].rendered = Snapshot(client[c])

\* C1: a client is in at most one call session: while it is in a call every
\* open registered connection is to a participant of the current activeCallData
\* (the participant set was not replaced while connections of the earlier one
\* are open), and no incomingCall record is pending while isInCall is true.
C1_OneCallSession ==
  \A c \in Users :
    /\ client[c].isInCall => Registered(client[c]) \subseteq Range(ParticipantIds(client[c]))
    /\ ~(client[c].isInCall /\ client[c].incomingCall # None)

MissedRows(table, type, callee, caller) ==
  CopiesIn([sender_id |-> caller, recipient_id |-> callee, type |-> type], table)

\* C2: for each incoming call the caller hangs up while it is pending, the
\* callee inserts exactly one missed_call message row and one MISSED_CALL
\* notification row, and then clears the incomingCall record: never more rows
\* than abandoned calls, and as many once the callee has nothing left to run.
C2_MissedCallExactlyOnce ==
  \A callee \in Users, caller \in Users :
    LET n == abandonedCalls[callee].count[caller]
        m == MissedRows(messages, "missed_call", callee, caller)
        k == MissedRows(notifications, "MISSED_CALL", callee, caller)
    IN /\ m <= n /\ k <= n
       /\ Quiet(callee) => m = n /\ k = n /\ ~abandonedCalls[callee].hungUp

\* open RTCPeerConnection objects of client s for peer p
LiveConnections(s, p) ==
  (IF s.peerConnectionsRef[p] # None THEN 1 ELSE 0) + s.unclosed[p]

\* C4: at most one live peer connection per remote participant id.
C4_OneLiveConnectionPerPeer ==
  \A c \in Users, p \in Users : LiveConnections(client[c], p) <= 1

\* C5: participantIds never contains the local user's own id.
C5_NoSelfParticipant ==
  \A c \in Users : ~Includes(ParticipantIds(client[c]), c)

\* client c ran a segment that ended in s2
Ran(c, s2) == client'[c] = [s2 EXCEPT !.out = <<>>, !.rows = <<>>]

Sends(s2, type, recipientId) ==
  \E i \in 1..Len(s2.out) : s2.out[i].type = type /\ s2.out[i].recipientId = recipientId

TasksOf(c, ops) == {task \in BagToSet(client[c].tasks) : task.op \in ops}

\* C6: an OFFER from B delivered to A while A is in a call and B is in A's
\* participantIds sets no incomingCall record and is answered with an ANSWER
\* to B on the connection A holds for B.
C6_OfferFromParticipantIsRenegotiation ==
  [][\A A \in Users :
       (/\ inbox[A] # <<>>
        /\ Head(inbox[A]).type = "OFFER"
        /\ client[A].isInCall
        /\ Includes(ParticipantIds(client[A]), Head(inbox[A]).senderId)
        /\ Deliver(A))
       => LET B == Head(inbox[A]).senderId
              s2 == onSignal(client[A], Head(inbox[A]))
          IN /\ client'[A].incomingCall = client[A].incomingCall
             /\ client[A].peerConnectionsRef[B] # None
             /\ client'[A].peerConnectionsRef[B] = client[A].peerConnectionsRef[B]
             /\ Sends(s2, "ANSWER", B)]_vars

\* the segments in which a startCall, startGroupCall or acceptIncomingCall of
\* client c completes successfully
CallSetUps(c) ==
  {Resume(client[c], task, TRUE) :
     task \in TasksOf(c, {"startGroupCall", "acceptIncomingCall"})}
  \cup {startGroupCall(client[c], recipientIds) :
          recipientIds \in {ids \in RecipientLists :
                              /\ client[c].rendered.localStream # None
                              /\ opsLeft' = opsLeft - 1}}

AudioEnabled(s, p) ==
  /\ s.peerConnectionsRef[p] # None
  /\ The(s.peerConnectionsRef[p]).audio # 0
  /\ s.tracks[The(s.peerConnectionsRef[p]).audio].enabled

\* C8: when a startCall, startGroupCall or acceptIncomingCall completes
\* successfully, isMicOn is false and the audio track on each peer
\* connection it created is disabled.
C8_CallsStartMuted ==
  [][\A c \in Users : \A s2 \in CallSetUps(c) :
       Ran(c, s2) =>
         /\ ~client'[c].isMicOn
         /\ \A p \in Range(ParticipantIds(s2)) : ~AudioEnabled(client'[c], p)]_vars

\* the segments of the toggleMic invocations of client c
ToggleMics(c) ==
  {Resume(client[c], task, TRUE) : task \in TasksOf(c, {"toggleMic"})}
  \cup {s2 \in {toggleMic(client[c])} : opsLeft' = opsLeft - 1}

AudioSender(s, p) ==
  IF s.peerConnectionsRef[p] = None THEN 0 ELSE The(s.peerConnectionsRef[p]).audio

\* C9: during a call a toggleMic leaves on every audio sender the track the
\* sender already holds (the microphone acquired for the call), changing at
\* most its enabled flag, and a toggleMic that turns the microphone on or off
\* sends no OFFER.
C9_ToggleMicKeepsTrack ==
  [][\A c \in Users : \A s2 \in ToggleMics(c) :
       (Ran(c, s2) /\ client[c].isInCall) =>
         /\ \A p \in Users :
              AudioSender(client[c], p) # 0
                => AudioSender(client'[c], p) = AudioSender(client[c], p)
         /\ s2.isMicOn # client[c].isMicOn
              => \A p \in Users : ~Sends(s2, "OFFER", p)]_vars

\* C10: isCameraOn and isScreenSharing are never both true, whatever the
\* interleaving of toggleCamera, toggleScreenShare, the capture-ended
\* callback of a screen track and the teardown of the call.
C10_CameraXorScreen ==
  \A c \in Users : ~(client[c].isCameraOn /\ client[c].isScreenSharing)

Idle(s) == ~s.isInCall /\ s.activeCallData = None /\ Registered(s) = {}

\* B is in a session with A alone and A's HANGUP is on its way to B
HungUpOn(A, B) ==
  /\ client[B].isInCall
  /\ ParticipantIds(client[B]) = <<A>>
  /\ \E i \in 1..Len(inbox[B]) :
       inbox[B][i].type = "HANGUP" /\ inbox[B][i].senderId = A

\* C3: when A ends a two-party session with B, eventually both have
\* isInCall false, activeCallData null and an empty connection registry.
C3_EndCallEndsBothSides ==
  \A A \in Users : \A B \in Users \ {A} :
    HungUpOn(A, B) ~> (Idle(client[A]) /\ Idle(client[B]))

IsSignal(msg, type, senderId, recipientId) ==
  msg.type = type /\ msg.senderId = senderId /\ msg.recipientId = recipientId

Pending(c, type, senderId) ==
  \E i \in 1..Len(inbox[c]) : IsSignal(inbox[c][i], type, senderId, c)

\* u1's startCall('u2') completes: one connection, one OFFER to u2
StartCallCompletes ==
  \A task \in TasksOf("u1", {"startGroupCall"}) :
    LET s2 == Resume(client["u1"], task, TRUE)
    IN (task.ids = <<"u2">> /\ Idle(client["u1"]) /\ Ran("u1", s2)) =>
         /\ Registered(client'["u1"]) = {"u2"}
         /\ \A p \in Users : LiveConnections(client'["u1"], p) <= 1
         /\ Len(s2.out) = 1 /\ IsSignal(s2.out[1], "OFFER", "u1", "u2")
         /\ inbox'["u2"] = Append(inbox["u2"], s2.out[1])

\* idle u2 receives the OFFER: the incoming call of u1 is recorded
OfferRings ==
  (/\ inbox["u2"] # <<>> /\ IsSignal(Head(inbox["u2"]), "OFFER", "u1", "u2")
   /\ Idle(client["u2"]) /\ client["u2"].incomingCall = None
   /\ Deliver("u2"))
  => client'["u2"].incomingCall = Some([callerId |-> "u1"])

\* u2's acceptIncomingCall completes: active with [u1], one ANSWER to u1
AcceptCompletes ==
  \A task \in TasksOf("u2", {"acceptIncomingCall"}) :
    LET s2 == Resume(client["u2"], task, TRUE)
    IN (task.ids = <<"u1">> /\ Ran("u2", s2)) =>
         /\ client'["u2"].isInCall
         /\ ParticipantIds(client'["u2"]) = <<"u1">>
         /\ client'["u2"].incomingCall = None
         /\ Len(s2.out) = 1 /\ IsSignal(s2.out[1], "ANSWER", "u2", "u1")
         /\ inbox'["u1"] = Append(inbox["u1"], s2.out[1])

\* u1, in the call, receives the ANSWER: active with u2 exactly once
AnswerConfirms ==
  (/\ inbox["u1"] # <<>> /\ IsSignal(Head(inbox["u1"]), "ANSWER", "u2", "u1")
   /\ client["u1"].isInCall
   /\ Deliver("u1"))
  => /\ client'["u1"].isInCall
     /\ Count(ParticipantIds(client'["u1"]), "u2") = 1
     /\ Registered(client'["u1"]) = {"u2"}

\* C7: the call set-up handshake between idle u1 and u2.  startCall('u2')
\* on u1 creates one connection and sends one OFFER to u2; the OFFER reaches
\* u2 and records incomingCall with callerId u1; u2.acceptIncomingCall()
\* makes u2 active with participantIds [u1] and sends one ANSWER; the ANSWER
\* reaches u1 and leaves u1 active with u2 in participantIds exactly once.
C7_Handshake ==
  /\ [][StartCallCompletes /\ OfferRings /\ AcceptCompletes /\ AnswerConfirms]_vars
  /\ Pending("u2", "OFFER", "u1") ~> (client["u2"].incomingCall = Some([callerId |-> "u1"]))
  /\ Pending("u1", "ANSWER", "u2") ~> ~Pending("u1", "ANSWER", "u2")

C7_Witness ==
  /\ client["u1"].isInCall /\ ParticipantIds(client["u1"]) = <<"u2">>
  /\ client["u2"].isInCall /\ ParticipantIds(client["u2"]) = <<"u1">>
  /\ client["u1"].peerConnectionsRef["u2"] # None
  /\ client["u2"].peerConnectionsRef["u1"] # None
  /\ client["u2"].incomingCall = None
  /\ inbox["u1"] = <<>> /\ inbox["u2"] = <<>>
  /\ client["u1"].tasks = EmptyBag /\ client["u2"].tasks = EmptyBag

\* the part of a client's state that holds its session, media and connections
Kept(s, fields) == [f \in fields |-> s[f]]

HangupsHandled(c, P) ==
  {onSignal(client[c], msg) :
     msg \in {m \in (IF inbox[c] = <<>> THEN {} ELSE {Head(inbox[c])}) :
                /\ IsSignal(m, "HANGUP", P, c)
                /\ IncomingCallRef(client[c]) # Some([callerId |-> P])
                /\ inbox'[c] = Tail(inbox[c])}}
  \cup {Resume(client[c], task, TRUE) :
          task \in {k \in TasksOf(c, {"HANGUP:messages"}) : k.ids = <<P>>}}

\* C12: when the HANGUP of participant P is handled during an active call, P
\* is removed from participantIds and the connection registered for P is
\* closed and unregistered; if other participants remain, isInCall stays
\* true and their connections and participantIds entries are unchanged; if
\* none remain the client tears down (isInCall false, activeCallData null,
\* registry empty).
C12_RemoteHangupRemovesParticipant ==
  [][\A c \in Users : \A P \in Users : \A s2 \in HangupsHandled(c, P) :
       (/\ Ran(c, s2)
        /\ client[c].isInCall
        /\ Includes(ParticipantIds(client[c]), P))
       => LET others == Filter(ParticipantIds(client[c]), P)
          IN /\ ~Includes(ParticipantIds(client'[c]), P)
             /\ client'[c].peerConnectionsRef[P] = None
             /\ others # <<>> =>
                  /\ client'[c].isInCall
                  /\ ParticipantIds(client'[c]) = others
                  /\ \A q \in Users \ {P} :
                       client'[c].peerConnectionsRef[q] = client[c].peerConnectionsRef[q]
             /\ others = <<>> => Idle(client'[c])]_vars

\* u1 called u2 and u3, u2 declined and u1 handled its HANGUP: the call with
\* u3 goes on
C12_Witness ==
  /\ client["u1"].isInCall
  /\ ParticipantIds(client["u1"]) = <<"u3">>
  /\ Registered(client["u1"]) = {"u3"}
  /\ inbox["u1"] = <<>>
  /\ client["u2"].incomingCall = None
  /\ client["u2"].rendered.incomingCall = Some([callerId |-> "u1"])
  /\ messages = EmptyBag /\ notifications = EmptyBag

\* the session a suspended callback of client c was invoked in has ended:
\* the call it toggled media in is over, or the ringing it accepted has
\* stopped without a call
SessionEnded(c, task) ==
  IF task.op = "acceptIncomingCall"
  THEN client[c].incomingCall = None /\ ~client[c].isInCall
  ELSE task.closure.isInCall /\ ~client[c].isInCall

\* C13: an acceptIncomingCall, toggleMic, toggleCamera or toggleScreenShare
\* that resumes from its media capture after the session has ended discards
\* its result: it creates no peer connection, installs no track, sends no
\* ANSWER or OFFER and sets none of isInCall, isMicOn, isCameraOn,
\* isScreenSharing to true.
C13_ResumeAfterEndDiscards ==
  [][\A c \in Users :
       \A task \in TasksOf(c, {"acceptIncomingCall", "toggleMic", "toggleCamera",
                               "toggleScreenShare"}) :
         LET s2 == Resume(client[c], task, TRUE)
         IN (Ran(c, s2) /\ SessionEnded(c, task)) =>
              /\ client'[c].peerConnectionsRef = client[c].peerConnectionsRef
              /\ client'[c].unclosed = client[c].unclosed
              /\ client'[c].localStream = client[c].localStream
              /\ client'[c].localAudioStream = client[c].localAudioStream
              /\ client'[c].localVideoStream = client[c].localVideoStream
              /\ \A p \in Users : ~Sends(s2, "ANSWER", p) /\ ~Sends(s2, "OFFER", p)
              /\ ~client'[c].isInCall /\ ~client'[c].isMicOn
              /\ ~client'[c].isCameraOn /\ ~client'[c].isScreenSharing]_vars

\* the segments client c can run now that negotiate: each with its twin, the
\* same segment when no offer/answer call rejects
Segments(c) ==
  LET s == client[c]
      sound == [s EXCEPT !.failingPeers = {}]
  IN {[run |-> Resume(s, task, TRUE), twin |-> Resume(sound, task, TRUE)] :
        task \in BagToSet(s.tasks)}
     \cup {[run |-> onSignal(s, msg), twin |-> onSignal(sound, msg)] :
             msg \in {m \in Range(inbox[c]) : m = Head(inbox[c])}}
     \cup {[run |-> startGroupCall(s, ids), twin |-> startGroupCall(sound, ids)] :
             ids \in {r \in RecipientLists : opsLeft' = opsLeft - 1}}

\* C14: when the offer/answer calls of client c reject for peer p in a segment
\* that negotiates with p (it would send p an OFFER or an ANSWER), the segment
\* leaves no connection registered for p, and the connection and the
\* participantIds membership of every other peer are what they are when
\* nothing rejects.
C14_FailedNegotiationClosesPeer ==
  [][\A c \in Users : \A p \in client[c].failingPeers : \A seg \in Segments(c) :
       (/\ Ran(c, seg.run)
        /\ Sends(seg.twin, "OFFER", p) \/ Sends(seg.twin, "ANSWER", p))
       => /\ client'[c].peerConnectionsRef[p] = None
          /\ \A q \in Users \ {p} :
               /\ client'[c].peerConnectionsRef[q] = seg.twin.peerConnectionsRef[q]
               /\ Includes(ParticipantIds(client'[c]), q)
                    <=> Includes(ParticipantIds(seg.twin), q)]_vars

\* the segments of the media controls client c can run now
MediaSegments(c) ==
  {Resume(client[c], task, TRUE) :
     task \in TasksOf(c, {"toggleMic", "toggleCamera", "toggleScreenShare",
                          "stopScreenSharing", "stopScreenSharing:restored"})}
  \cup {onended(client[c], screenTrack) :
          screenTrack \in {k \in 1..Len(client[c].tracks) :
                             /\ client[c].tracks[k].kind = "screen"
                             /\ client[c].tracks[k].live}}

\* a connection that had no sender of a kind carries a track of it in s2
TrackAdded(s, s2) ==
  \E p \in Registered(s) :
    /\ s2.peerConnectionsRef[p] # None
    /\ \/ The(s.peerConnectionsRef[p]).audio = 0 /\ The(s2.peerConnectionsRef[p]).audio # 0
       \/ The(s.peerConnectionsRef[p]).video = 0 /\ The(s2.peerConnectionsRef[p]).video # 0

\* C15: a segment of toggleMic, toggleCamera, toggleScreenShare or
\* stopScreenSharing sends an OFFER only when it added a track to a connection
\* that had no sender of that kind; when it only replaced the tracks of
\* existing senders it sends none.
C15_OfferOnlyAfterAddTrack ==
  [][\A c \in Users : \A s2 \in MediaSegments(c) :
       (Ran(c, s2) /\ \E p \in Users : Sends(s2, "OFFER", p))
       => TrackAdded(client[c], s2)]_vars

CaptureOps ==
  {"startGroupCall", "acceptIncomingCall", "toggleMic", "toggleCamera", "toggleScreenShare"}

CallState ==
  {"isInCall", "activeCallData", "incomingCall", "peerConnectionsRef", "unclosed",
   "isMicOn", "isCameraOn", "isScreenSharing", "localStream", "localAudioStream",
   "localVideoStream", "localAudioStreamRef", "localVideoStreamRef", "tracks"}

\* C16: an operation that asks for a capture changes nothing of the call state
\* before it suspends, and when the capture fails its continuation changes
\* nothing either: isInCall, activeCallData, incomingCall, the registry, the
\* media flags and the local streams are what they were.
C16_CaptureFailureKeepsState ==
  [][\A c \in Users :
       /\ \A task \in TasksOf(c, CaptureOps) :
            Ran(c, Resume(client[c], task, FALSE))
            => Kept(client'[c], CallState) = Kept(client[c], CallState)
       /\ \A task \in {k \in BagToSet(client'[c].tasks) : k.op \in CaptureOps} :
            client'[c].tasks = client[c].tasks (+) SetToBag({task})
            => Kept(client'[c], CallState) = Kept(client[c], CallState)]_vars

\* u1 is in its call to u2 with the one track and the one connection of the
\* call, two operations were invoked and neither left a trace: a capture failed
C16_Witness ==
  /\ opsLeft = MaxFaultOps - 2
  /\ client["u1"].isInCall
  /\ ParticipantIds(client["u1"]) = <<"u2">>
  /\ Registered(client["u1"]) = {"u2"}
  /\ client["u1"].unclosed = [p \in Users |-> 0]
  /\ Len(client["u1"].tracks) = 1
  /\ client["u1"].tasks = EmptyBag
  /\ client["u2"].tasks = EmptyBag
  /\ client["u2"].tracks = <<>>
  /\ ~client["u2"].isInCall

\* the signal is from another user and is a broadcast or addressed to c
Addressed(c, msg) ==
  msg.senderId # c /\ msg.recipientId \in {Undefined, c}

\* C17: when the handler of client c is handed a signal that c sent itself or
\* that is addressed to another recipient (an OFFER, ANSWER, CANDIDATE or
\* HANGUP of a call between others), nothing changes but the queue: the state
\* of c is the same, nothing is sent and nothing is stored.
C17_OnlyAddressedSignalsAct ==
  [][\A c \in Users :
       (Deliver(c) /\ ~Addressed(c, Head(inbox[c])))
       => /\ client'[c] = client[c]
          /\ inbox' = [inbox EXCEPT ![c] = Tail(@)]
          /\ messages' = messages
          /\ notifications' = notifications]_vars

\* u1 called u2 and nothing else was done; the copies of the OFFER that the
\* channel queued for u1 itself and for u3 were handled, u2 alone rings
C17_Witness ==
  /\ opsLeft = MaxChannelOps - 1
  /\ \A c \in Users : client[c].queuesEveryCopy /\ inbox[c] = <<>>
  /\ Registered(client["u1"]) = {"u2"}
  /\ client["u1"].incomingCall = None
  /\ client["u2"].incomingCall = Some([callerId |-> "u1"])
  /\ client["u3"].incomingCall = None

\* C18: a SCREEN_STOPPED of peer P with hasCameraFallback = TRUE leaves the
\* receiver's remoteStreams entry for P as it is; with hasCameraFallback =
\* FALSE the entry becomes a stream of P's audio tracks alone, and a receiver
\* without an entry for P gets none.  Nothing else of the receiver changes.
C18_ScreenStoppedKeepsFallbackVideo ==
  [][\A c \in Users :
       (Deliver(c) /\ Head(inbox[c]).type = "SCREEN_STOPPED")
       => LET P == Head(inbox[c]).senderId
              hasCameraFallback == Head(inbox[c]).payload
              entry == client[c].remoteStreams[P]
          IN client'[c] =
               [client[c] EXCEPT !.remoteStreams[P] =
                  IF hasCameraFallback \/ entry = None THEN entry
                  ELSE Some({k \in The(entry) : k = "audio"})]]_vars

\* u1 stopped a screen share without a camera to fall back to; u2, which had
\* u1's stream, and u3, which had none, handled the SCREEN_STOPPED
C18_Witness ==
  /\ \E k \in 1..Len(client["u1"].tracks) :
       client["u1"].tracks[k].kind = "screen" /\ ~client["u1"].tracks[k].live
  /\ ~client["u1"].isScreenSharing
  /\ ~client["u1"].isCameraOn
  /\ client["u1"].tasks = EmptyBag
  /\ \A c \in Users : inbox[c] = <<>>
  /\ client["u2"].remoteStreams["u1"] = Some({"audio"})
  /\ client["u3"].remoteStreams["u1"] = None

\* C19: once the initial fetch has returned and the effects of the last presence
\* sync have run, every user of the list is online exactly when its id is in
\* presentIds.
C19_OnlineIsPresence ==
  \A c \in Users :
    (client[c].usersFetched /\ ~client[c].presenceEffectsPending)
    => \A p \in Users :
         client[c].users[p] # None => (The(client[c].users[p]) <=> p \in client[c].presentIds)

\* C20: endCall of a client whose render shows its session sends one HANGUP to
\* every participant and releases what the call acquired: no connection stays
\* registered or open, and no captured track stays live.
C20_EndCallReleasesEverything ==
  [][\A c \in Users :
       (EndCall(c) /\ client[c].rendered.activeCallData = client[c].activeCallData)
       => LET s2 == endCall(client[c])
          IN /\ \A p \in Users :
                  Cardinality({k \in 1..Len(s2.out) : IsSignal(s2.out[k], "HANGUP", c, p)})
                    = Count(ParticipantIds(client[c]), p)
             /\ Count(ParticipantIds(client[c]), c) = 0
                  => \A p \in Range(ParticipantIds(client[c])) :
                       Len(inbox'[p]) = Len(inbox[p]) + 1
             /\ Idle(client'[c])
             /\ \A p \in Users : client'[c].unclosed[p] = 0
             /\ \A k \in 1..Len(client'[c].tracks) : ~client'[c].tracks[k].live]_vars

\* the channel hands c a signal of the type that P addressed to c
Handles(c, type, P) ==
  /\ Deliver(c)
  /\ IsSignal(Head(inbox[c]), type, P, c)

\* C21: an OFFER of P delivered to a client that is not in a call and has no
\* pending incoming call records the call of P and does nothing else: no
\* capture, no connection, nothing sent or stored, isInCall stays false.
C21_OfferWhileIdleRings ==
  [][\A c \in Users : \A P \in Users \ {c} :
       (/\ Handles(c, "OFFER", P)
        /\ ~client[c].isInCall
        /\ client[c].incomingCall = None)
       => /\ client'[c] = [client[c] EXCEPT !.incomingCall = Some([callerId |-> P])]
          /\ inbox' = [inbox EXCEPT ![c] = Tail(@)]
          /\ messages' = messages
          /\ notifications' = notifications]_vars

\* the camera was on when u1 first shared its screen: it had captured a camera
\* track before the screen track (SpecShare never turns the camera off)
CameraWasOn(s) ==
  \E k \in CameraTracks(s) : k < Min(ScreenTracks(s))

\* C22: when a screen share was started and stopped (by the toggle or by the
\* end of the capture) and the stop has finished, isScreenSharing is false and
\* isCameraOn is what it was before the share started; when the camera was
\* off then, no connection's video sender carries a track.
C22_ShareRoundTripRestoresCamera ==
  LET s == client["u1"]
  IN (/\ ScreenTracks(s) # {}
      /\ \A k \in ScreenTracks(s) : ~s.tracks[k].live
      /\ s.tasks = EmptyBag
      /\ s.isInCall)
     => /\ ~s.isScreenSharing
        /\ s.isCameraOn <=> CameraWasOn(s)
        /\ ~CameraWasOn(s) =>
             \A p \in Registered(s) : The(s.peerConnectionsRef[p]).video = 0

\* u1 shared its screen with the camera on, the share was stopped and the
\* camera is back on a track captured after the screen track
C22_Witness ==
  LET s == client["u1"]
  IN /\ ScreenTracks(s) # {}
     /\ \A k \in ScreenTracks(s) : ~s.tracks[k].live
     /\ s.tasks = EmptyBag
     /\ s.isInCall
     /\ CameraWasOn(s)
     /\ s.isCameraOn
     /\ \E k \in CameraTracks(s) : k > Min(ScreenTracks(s)) /\ s.tracks[k].live

\* the segments in which addToCall(p) of client c connects to p: the call
\* itself when the render holds a stream, its continuation otherwise
AddsToCall(c, p) ==
  {addToCall(client[c], p) :
     q \in {r \in {p} : /\ opsLeft' = opsLeft - 1
                        /\ client[c].rendered.isInCall
                        /\ client[c].rendered.activeCallData # None
                        /\ client[c].rendered.localStream # None}}
  \cup {Resume(client[c], task, TRUE) :
          task \in {k \in TasksOf(c, {"addToCall"}) : k.ids = <<p>>}}

\* C23: addToCall(p) in an active call registers a connection for p, sends p
\* one OFFER and leaves p in participantIds exactly once, also when p was a
\* participant already.
C23_AddToCallAddsOnce ==
  [][\A c \in Users : \A p \in Users : \A s2 \in AddsToCall(c, p) :
       (Ran(c, s2) /\ client[c].isInCall /\ client[c].activeCallData # None)
       => /\ client'[c].peerConnectionsRef[p] # None
          /\ Cardinality({k \in 1..Len(s2.out) : IsSignal(s2.out[k], "OFFER", c, p)}) = 1
          /\ Count(ParticipantIds(client'[c]), p) = 1]_vars

\* C24: an ANSWER of P changes nothing of client c but the remote description
\* of its connection to P and the membership of P: participantIds is the same
\* when P is in it, P is in it once afterwards when it was not, and without a
\* registered connection to P, or without a session, participantIds and all
\* the rest of the call state are the same.  Nothing is sent or stored.
C24_AnswerIsIdempotent ==
  [][\A c \in Users : \A P \in Users \ {c} :
       Handles(c, "ANSWER", P)
       => LET s == client[c]
              ids == ParticipantIds(s)
              unheard == s.peerConnectionsRef[P] = None \/ s.activeCallData = None
          IN /\ Includes(ids, P) \/ unheard => client'[c].activeCallData = s.activeCallData
             /\ ~Includes(ids, P) => Count(ParticipantIds(client'[c]), P) <= 1
             /\ s.peerConnectionsRef[P] = None => client'[c] = s
             /\ s.peerConnectionsRef[P] # None =>
                  client'[c] = [s EXCEPT !.activeCallData = client'[c].activeCallData,
                                         !.peerConnectionsRef[P] =
                                            Some([The(@) EXCEPT !.remote = TRUE])]
             /\ inbox' = [inbox EXCEPT ![c] = Tail(@)]
             /\ messages' = messages
             /\ notifications' = notifications]_vars

\* u1 called u2 and u2 accepted, nothing else was done and nothing is under
\* way: u1 has handled u2's ANSWER with u2 in its participantIds
C24_Witness ==
  /\ opsLeft = MaxOps - 2
  /\ \A c \in Users : inbox[c] = <<>> /\ client[c].tasks = EmptyBag
  /\ ParticipantIds(client["u1"]) = <<"u2">>
  /\ ParticipantIds(client["u2"]) = <<"u1">>
  /\ client["u1"].peerConnectionsRef["u2"] # None
  /\ The(client["u1"].peerConnectionsRef["u2"]).remote
  /\ client["u1"].incomingCall = None

\* C25: a HANGUP of X handled by a client whose incomingCall record is not a
\* call of X (or that has no record) stores no missed-call notification or
\* message, starts no missed-call recording and leaves the record as it is.
C25_HangupOfOtherPeerKeepsRecord ==
  [][\A c \in Users : \A X \in Users \ {c} :
       (/\ Handles(c, "HANGUP", X)
        /\ client[c].incomingCall # Some([callerId |-> X]))
       => /\ notifications' = notifications
          /\ messages' = messages
          /\ client'[c].incomingCall = client[c].incomingCall
          /\ client'[c].tasks = client[c].tasks]_vars

\* C26: an OFFER of P handled by a client that is in a call in which P is not
\* a participant is ignored: the state of the client is the same (incomingCall,
\* isInCall, participantIds, the registry, remoteStreams) and nothing is sent
\* or stored.
C26_OfferWhileBusyIsIgnored ==
  [][\A c \in Users : \A P \in Users \ {c} :
       (/\ Handles(c, "OFFER", P)
        /\ client[c].isInCall
        /\ ~Includes(ParticipantIds(client[c]), P))
       => /\ client'[c] = client[c]
          /\ inbox' = [inbox EXCEPT ![c] = Tail(@)]
          /\ messages' = messages
          /\ notifications' = notifications]_vars

Streaming(s) == {p \in Users : s.remoteStreams[p] # None}

\* C27: while a client is in a call and none of its callbacks is suspended, the
\* keys of the connection registry are the ids in participantIds and every
\* key of remoteStreams is a key of the registry; while it is idle and none of
\* its callbacks is suspended, the registry and remoteStreams are empty.
C27_RegistryMatchesParticipants ==
  \A c \in Users :
    LET s == client[c] IN
    s.tasks = EmptyBag =>
      /\ (s.isInCall /\ s.activeCallData # None) =>
           /\ Registered(s) = Range(ParticipantIds(s))
           /\ Streaming(s) \subseteq Registered(s)
      /\ (~s.isInCall /\ s.activeCallData = None) =>
           /\ Registered(s) = {}
           /\ Streaming(s) = {}

\* C28: u1 and u3 each had their OFFER handled by u2 before u2 answered, and
\* each hung up afterwards while u2 had not answered: once the HANGUPs are
\* handled and the inserts are done, a missed_call message row and a
\* MISSED_CALL notification row are stored for u1 and for u3.
C28_BothCallersAreMissed ==
  (/\ opsLeft = 0
   /\ \A c \in Users : inbox[c] = <<>> /\ client[c].tasks = EmptyBag)
  => \A X \in Callers :
       /\ MissedRows(messages, "missed_call", "u2", X) >= 1
       /\ MissedRows(notifications, "MISSED_CALL", "u2", X) >= 1

\* C29: when a user has logged out while in a call, every other participant
\* of the call eventually has that user no longer in its participantIds (and
\* is idle when the user was its only participant), as after endCall().
C29_LogoutNotifiesParticipants ==
  \A c \in {"u1", "u2"} : \A p \in {"u1", "u2"} \ {c} :
    (~client[c].currentUser /\ Includes(ParticipantIds(client[p]), c))
      ~> (~Includes(ParticipantIds(client[p]), c) /\ ~client[p].isInCall)

\* C30: a client that is not in a call (isInCall false, activeCallData null)
\* has isMicOn, isCameraOn and isScreenSharing false and holds no local audio
\* stream, no local video stream and no composed local stream.
C30_IdleHoldsNoMedia ==
  \A c \in Users :
    LET s == client[c] IN
    (~s.isInCall /\ s.activeCallData = None) =>
      /\ ~s.isMicOn /\ ~s.isCameraOn /\ ~s.isScreenSharing
      /\ s.localAudioStream = None /\ s.localAudioStreamRef = None
      /\ s.localVideoStream = None /\ s.localVideoStreamRef = None
      /\ s.localStream = None

====
